---- MODULE Spec2Model ----
(***************************************************************************)
(* The component aggregate-device framework of drivers/base/component.c.   *)
(*                                                                         *)
(* State: component_list, the struct component objects, the aggregate      *)
(* devices with their match arrays, the device lock of every aggregate     *)
(* device, component_mutex, and the position of every thread that is       *)
(* inside one of the exported calls.  A step of a thread is one region     *)
(* the code runs under component_mutex or under the device lock; between   *)
(* two regions the other threads run.                                      *)
(***************************************************************************)
EXTENDS Integers, Sequences, FiniteSets, TLC

\* ---------------------------------------------------------------- bounds
NumComps == 3        \* struct component objects a run may register

Comps == 1..NumComps
\* aggregate devices, each with its own parent device and its own driver
Aggs == {1, 2}
\* threads calling into the framework
Threads == {1, 2}

\* the device a component object belongs to: components 1,3,.. sit on
\* device 1, components 2,4,.. on device 2
DevOf(c) == IF c % 2 = 1 THEN 1 ELSE 2

\* the driver of the last component registers it with component_add_typed,
\* the drivers of the others with component_add
Typed(c) == c = NumComps

\* the driver of aggregate 1 uses component_master_add_with_match and
\* component_master_del, the others component_aggregate_register and
\* component_aggregate_unregister
Legacy(a) == a = 1

\* ------------------------------------------------------- program constants
EINVAL == 22
ENOMEM == 12
\* the error a bind callback returns (-EIO)
BindErrs == {-5}
\* the error an aggregate probe callback gives up with before it binds
\* (-ENODEV)
ProbeErrs == {-19}

\* subcomponent values component_add_typed is called with
Subs == {0, 1}

VARIABLES
    component_list,   \* LIST_HEAD(component_list): sequence of components
    comp,             \* struct component, by object
    adev,             \* struct aggregate_device (+ its driver), by slot
    devlock,          \* device_lock(&adev->dev): 0 or the thread holding it
    component_mutex,  \* 0, or the killed thread that still holds it
    thr,              \* where each thread is
    sys,              \* "up" or "panic"
    ev,               \* the call or walk that ended in the last step
    ktest,            \* a KUnit test that uses the platform device helpers
    conf,             \* a call of of_clk_set_defaults and what it did
    bridge            \* the USB type-c DisplayPort bridge

\* the state of the component framework
component_vars ==
    <<component_list, comp, adev, devlock, component_mutex, thr, sys, ev>>

vars == <<component_list, comp, adev, devlock, component_mutex, thr, sys, ev,
          ktest, conf, bridge>>

\* what a step of the component framework leaves alone
component_frame == <<ktest, conf, bridge>>

\* what a step of a KUnit test leaves alone
kunit_frame == <<component_vars, conf, bridge>>

\* what of_clk_set_defaults leaves alone
conf_frame == <<component_vars, ktest, bridge>>

\* what a step of the type-c bridge leaves alone
bridge_frame == <<component_vars, ktest, conf>>

\* ------------------------------------------------------------ match entries
\* struct component_match_array as __component_match_add fills it.  The
\* array comes from kmalloc_array, so .duplicate holds no value until
\* find_components writes it.
MatchEntry(cmp, typed, d, s) ==
    [compare |-> cmp, compare_typed |-> typed, data |-> [dev |-> d, sub |-> s],
     component |-> 0, duplicate |-> "uninit"]

\* component_match_add(parent, &match, compare_dev, dev)
component_match_add(d) == MatchEntry(TRUE, FALSE, d, 0)

\* component_match_add_typed(parent, &match, compare_dev_sub, {dev, sub})
component_match_add_typed(d, s) == MatchEntry(FALSE, TRUE, d, s)

\* the compare callbacks the aggregate drivers pass
compare(dev, data) == dev = data.dev
compare_typed(dev, sub, data) == dev = data.dev /\ sub = data.sub

\* the match lists aggregate drivers register with
MatchLists ==
    { <<component_match_add(2)>>,
      <<component_match_add(1), component_match_add(2)>>,
      <<component_match_add(1), component_match_add(1)>>,
      <<component_match_add(1), component_match_add(2),
        component_match_add_typed(1, 1)>> }

\* ------------------------------------------------------------------ objects
FreeComp == [st |-> "free", subcomponent |-> 0, adev |-> 0, bound |-> FALSE]

\* bstack and probed are history: the order in which the bound components
\* were bound, and whether aggregate_driver_probe has run for the device
\* since it was registered and since a bound component of it was last deleted
NoAdev == [st |-> "none", drvreg |-> FALSE, driver |-> FALSE, refs |-> 0,
           legacy |-> FALSE, match |-> <<>>, bstack |-> <<>>, probed |-> FALSE]

Idle == [pc |-> "idle", op |-> "none", c |-> 0, a |-> 0, ret |-> 0, pre |-> {}]

NoEv == [op |-> "none", c |-> 0, a |-> 0, ret |-> 0, k |-> 0,
         err |-> 0, binds |-> <<>>, unbinds |-> <<>>, fault |-> FALSE, lifo |-> TRUE,
         warn |-> FALSE, called |-> FALSE, pre |-> {}, list |-> <<>>,
         nulls |-> {}]

Min(S) == CHOOSE x \in S : \A y \in S : x <= y

RemoveAt(s, i) == [j \in 1..(Len(s) - 1) |-> IF j < i THEN s[j] ELSE s[j + 1]]

Last(s) == s[Len(s)]

\* ----------------------------------------------------------- find_component
\* a find_component without the "c->adev && c->adev != adev" test
find_component_shared(cl, cm, a, mc) ==
    LET ok(c) == \/ mc.compare /\ compare(DevOf(c), mc.data)
                 \/ mc.compare_typed
                    /\ compare_typed(DevOf(c), cm[c].subcomponent, mc.data)
        idx == {i \in 1..Len(cl) : ok(cl[i])}
    IN  IF idx = {} THEN 0 ELSE cl[Min(idx)]

\* The first component of component_list that is free or already attached to
\* this aggregate and that the entry's callback accepts; 0 is NULL.
find_component(cl, cm, a, mc) ==
    LET ok(c) == /\ ~(cm[c].adev # 0 /\ cm[c].adev # a)
                 /\ \/ mc.compare /\ compare(DevOf(c), mc.data)
                    \/ mc.compare_typed
                       /\ compare_typed(DevOf(c), cm[c].subcomponent, mc.data)
        idx == {i \in 1..Len(cl) : ok(cl[i])}
    IN  IF idx = {} THEN 0 ELSE cl[Min(idx)]

\* ---------------------------------------------------------- find_components
\* The loop of find_components from index i on.  h = [comp, ad]; the result
\* adds ret (0: an entry found no component, 1: every entry is attached).
RECURSIVE find_components_from(_, _, _, _)
find_components_from(i, cl, h, a) ==
    LET match == h.ad[a].match IN
    IF i > Len(match) THEN [comp |-> h.comp, ad |-> h.ad, ret |-> 1]
    ELSE IF match[i].component # 0
         THEN find_components_from(i + 1, cl, h, a)
    ELSE LET c == find_component(cl, h.comp, a, match[i]) IN
         IF c = 0 THEN [comp |-> h.comp, ad |-> h.ad, ret |-> 0]
         ELSE LET duplicate == h.comp[c].adev # 0
                  m2 == [match EXCEPT ![i].duplicate = duplicate,
                                      ![i].component = c]
              IN  IF duplicate
                  THEN find_components_from(i + 1, cl,
                         [comp |-> h.comp,
                          ad |-> [h.ad EXCEPT ![a].match = m2]], a)
                  ELSE find_components_from(i + 1, cl,
                         [comp |-> [h.comp EXCEPT ![c].adev = a],
                          ad |-> [h.ad EXCEPT ![a].match = m2,
                                              ![a].refs = @ + 1]], a)

find_components(cl, h, a) == find_components_from(1, cl, h, a)

\* --------------------------------------------------------- remove_component
remove_component(match, c) ==
    [i \in 1..Len(match) |->
        IF match[i].component = c THEN [match[i] EXCEPT !.component = 0]
        ELSE match[i]]

\* ------------------------------------------------------ free_aggregate_device
free_aggregate_device(h, a) ==
    LET cs == {h.ad[a].match[i].component : i \in 1..Len(h.ad[a].match)} \ {0}
    IN  [comp |-> [c \in Comps |->
                     IF c \in cs THEN [h.comp[c] EXCEPT !.adev = 0]
                     ELSE h.comp[c]],
         ad |-> [h.ad EXCEPT ![a] = NoAdev]]

\* put_device(&adev->dev): the release callback runs when the last reference
\* goes; the references counted here are those find_components takes, the one
\* of device_register is dropped by device_unregister (st = "zombie").
put_device(h, a) ==
    LET h2 == [comp |-> h.comp, ad |-> [h.ad EXCEPT ![a].refs = @ - 1]] IN
    IF h2.ad[a].refs = 0 /\ h2.ad[a].st = "zombie"
    THEN free_aggregate_device(h2, a) ELSE h2

\* --------------------------------------------------------- component_unbind
\* Calls the unbind callback and clears bound.  bstack is the order in which
\* the aggregate's bound components were bound; lifo tells whether c was the
\* last of them.
component_unbind(w, a, i, c) ==
    LET st == w.ad[a].bstack IN
    [w EXCEPT !.comp[c].bound = FALSE,
              !.ad[a].bstack = SelectSeq(st, LAMBDA x : x # c),
              !.unbinds = Append(@, [i |-> i, c |-> c]),
              !.lifo = @ /\ st # <<>> /\ Last(st) = c,
              !.warn = @ \/ ~w.comp[c].bound]

\* ------------------------------------------------------ component_unbind_all
\* The walk of component_unbind_all, "for (i = num; i--; )", at entry i
\* (1-based).  An entry that is not a duplicate and whose component is NULL
\* makes component_unbind dereference NULL: the walk ends there (fault).
RECURSIVE unbind_walk(_, _, _)
unbind_walk(i, w, a) ==
    IF i = 0 THEN w
    ELSE LET e == w.ad[a].match[i] IN
         IF e.duplicate = FALSE
         THEN IF e.component = 0 THEN [w EXCEPT !.fault = TRUE]
              ELSE unbind_walk(i - 1, component_unbind(w, a, i, e.component), a)
         ELSE unbind_walk(i - 1, w, a)

\* a walk starts with empty logs
Walk(h, a) ==
    [comp |-> h.comp, ad |-> h.ad, ret |-> 0, k |-> 0, err |-> 0, binds |-> <<>>,
     unbinds |-> <<>>, fault |-> FALSE, lifo |-> TRUE, warn |-> FALSE,
     called |-> FALSE,
     nulls |-> {i \in 1..Len(h.ad[a].match) : h.ad[a].match[i].component = 0}]

\* __aggregate_find(parent, NULL): the aggregate device of this parent that
\* is on the aggregate bus
aggregate_find(h, a) == IF h.ad[a].st = "bus" THEN a ELSE 0

component_unbind_all(h, a) ==
    IF aggregate_find(h, a) = 0 THEN Walk(h, a)
    ELSE unbind_walk(Len(h.ad[a].match), Walk(h, a), a)

\* ----------------------------------------------------------- component_bind
\* component_bind of entry i's component c.  out.at = i makes this call fail
\* with out.ret: out.cb tells whether it is the bind callback that returned
\* the error or the first devres_open_group that returned NULL, before the
\* component is looked at.
component_bind(w, a, i, c, out) ==
    IF out.at = i
    THEN [w EXCEPT !.ret = out.ret, !.k = IF out.cb THEN i ELSE 0,
                   !.err = IF out.cb THEN out.ret ELSE 0]
    ELSE [w EXCEPT !.ret = 0,
                   !.comp[c].bound = TRUE,
                   !.ad[a].bstack = Append(@, c),
                   !.binds = Append(@, [i |-> i, c |-> c])]

\* a roll-back loop that leaves the first entry out, "for (; i > 1; i--)"
RECURSIVE bind_rollback_short(_, _, _)
bind_rollback_short(i, w, a) ==
    IF i <= 1 THEN w
    ELSE LET e == w.ad[a].match[i] IN
         IF e.duplicate = FALSE /\ e.component # 0
         THEN bind_rollback_short(i - 1, component_unbind(w, a, i, e.component), a)
         ELSE bind_rollback_short(i - 1, w, a)

\* the roll-back loop of component_bind_all, "for (; i > 0; i--)"
RECURSIVE bind_rollback(_, _, _)
bind_rollback(i, w, a) ==
    IF i = 0 THEN w
    ELSE LET e == w.ad[a].match[i] IN
         IF e.duplicate = FALSE
         THEN IF e.component = 0 THEN [w EXCEPT !.fault = TRUE]
              ELSE bind_rollback(i - 1, component_unbind(w, a, i, e.component), a)
         ELSE bind_rollback(i - 1, w, a)

\* the bind loop of component_bind_all at entry i (1-based)
RECURSIVE bind_walk(_, _, _, _)
bind_walk(i, w, a, out) ==
    IF i > Len(w.ad[a].match) THEN w
    ELSE LET e == w.ad[a].match[i] IN
         IF e.duplicate = FALSE
         THEN IF e.component = 0 /\ ~(out.at = i /\ ~out.cb)
              THEN [w EXCEPT !.fault = TRUE]
              ELSE LET w2 == component_bind(w, a, i, e.component, out) IN
                   IF w2.ret # 0 THEN bind_rollback(i - 1, w2, a)
                   ELSE bind_walk(i + 1, w2, a, out)
         ELSE bind_walk(i + 1, w, a, out)

\* ------------------------------------------------------- component_bind_all
component_bind_all(h, a, out) ==
    IF aggregate_find(h, a) = 0 THEN [Walk(h, a) EXCEPT !.ret = -EINVAL]
    ELSE bind_walk(1, Walk(h, a), a, out)

\* --------------------------------------------------- aggregate_driver_probe
\* What a probe of aggregate device a can meet: devres_open_group returns
\* NULL ("nomem"), the driver's probe callback gives up before it binds
\* ("fail"), or it calls component_bind_all and returns its result ("bind"),
\* where the component_bind of entry `at` fails (at = 0: none does).
ProbeInputs(n) ==
    {[kind |-> "nomem", at |-> 0, ret |-> -ENOMEM, cb |-> FALSE],
     [kind |-> "bind", at |-> 0, ret |-> 0, cb |-> FALSE]}
    \cup {[kind |-> "fail", at |-> 0, ret |-> r, cb |-> FALSE] : r \in ProbeErrs}
    \cup {[kind |-> "bind", at |-> k, ret |-> r, cb |-> TRUE] :
            k \in 1..n, r \in BindErrs}
    \cup {[kind |-> "bind", at |-> k, ret |-> -ENOMEM, cb |-> FALSE] : k \in 1..n}

aggregate_driver_probe(h, a, in) ==
    IF in.kind = "nomem"
    THEN [Walk(h, a) EXCEPT !.ret = -ENOMEM, !.ad[a].probed = TRUE]
    ELSE IF in.kind = "fail"
         THEN [Walk(h, a) EXCEPT !.ret = in.ret, !.called = TRUE,
                                 !.ad[a].probed = TRUE]
    ELSE [component_bind_all(h, a, in) EXCEPT !.called = TRUE,
                                              !.ad[a].probed = TRUE]

\* -------------------------------------------------- aggregate_driver_remove
\* The remove callback of the aggregate driver calls component_unbind_all.
aggregate_driver_remove(h, a) ==
    [component_unbind_all(h, a) EXCEPT !.called = TRUE]

\* ------------------------------------------------------------------- state
Heap == [comp |-> comp, ad |-> adev]

\* the walk w that ended in this step, as the event of call op
Ev(op, c, a, w, pre) ==
    [op |-> op, c |-> c, a |-> a, ret |-> w.ret, k |-> w.k,
     err |-> w.err, binds |-> w.binds, unbinds |-> w.unbinds, fault |-> w.fault,
     lifo |-> w.lifo, warn |-> w.warn, called |-> w.called, pre |-> pre,
     list |-> <<>>, nulls |-> w.nulls]

\* a call that ends without a walk
Ret(op, c, a, r) ==
    [NoEv EXCEPT !.op = op, !.c = c, !.a = a, !.ret = r]

\* the components of aggregate a that are bound
BoundOf(cm, a) == {c \in Comps : cm[c].adev = a /\ cm[c].bound}

\* ------------------------------------------------- KUnit platform helpers
\* platform devices a test may allocate, and the ids it gives them (all
\* carry the name "kunit-platform")
PDevs == {1, 2}
DevIds == {-1, 1}

\* struct platform_device before platform_device_alloc.  refs is the
\* reference count of the embedded struct device; drops and underflow are
\* history: how often a reference was dropped, and whether one was dropped
\* after the last was gone.
NoPdev == [st |-> "none", id |-> 0, managed |-> FALSE, refs |-> 0, drops |-> 0,
           underflow |-> FALSE, probed |-> FALSE, addret |-> 0]


\* struct platform_driver of the test
NoPdrv == [st |-> "none", ret |-> 0, unregs |-> 0, managed |-> FALSE, before |-> {}]

\* the clk consumer handles and the clk_hw structures of a test
Clks == {1, 2}
Hws == {1, 2}

\* a struct clk that clk_hw_get_clk has not returned yet: st is none, held or
\* put; en the prepare and enable counts this consumer holds; enret what
\* clk_prepare_enable returned for it, kret what the helper that enabled it
\* returned, gret what the helper that got it returned, how that helper;
\* bad says it was disabled without being enabled or used after clk_put
NoClk == [st |-> "none", hw |-> 0, en |-> 0, how |-> "none", gret |-> 0,
          tried |-> FALSE, enret |-> 0, kret |-> 0, bad |-> FALSE]

\* a struct clk_hw that is not registered: st is none, registered or
\* unregistered; regret what clk_hw_register returned, kret what the helper
\* returned, how that helper
NoHw == [st |-> "none", how |-> "none", regret |-> 0, kret |-> 0, bad |-> FALSE]

\* a test that has just started: no resources, nothing allocated.  res is
\* test->resources in the order the resources were added, log the cleanup
\* functions called so far, call the helper call that returned last.
NoTest == [phase |-> "run", res |-> <<>>, log |-> <<>>, dev |-> [p \in PDevs |-> NoPdev],
           drv |-> NoPdrv, call |-> [op |-> "none", p |-> 0, ret |-> 0],
           clk |-> [c \in Clks |-> NoClk], hw |-> [h \in Hws |-> NoHw]]

\* no call of of_clk_set_defaults yet
NoConf == [done |-> FALSE, present |-> FALSE, clk_supplier |-> FALSE,
           node |-> [parents |-> <<>>, clocks |-> <<>>, rates |-> <<>>],
           parentErr |-> 0, rc |-> 0, log |-> <<>>]

\* the type-c ports of the bridge
Ports == {1, 2}

\* the call that returned last: a mode_switch_set of port with state mode,
\* alt and hpd, whether the driver data were set, and the status it
\* notified; or an atomic_check and the input lanes it asked for
NoCall == [op |-> "none", port |-> 0, mode |-> 0, alt |-> "none", hpd |-> FALSE,
           drvdata |-> FALSE, ret |-> 0, status |-> "none", delivered |-> FALSE,
           num_lanes |-> 0, lanes |-> <<>>]

\* the auxiliary device before its driver is probed: dp_mode is the mode of
\* the DisplayPort state handled last, or -1; refused says a mode_switch_set
\* returned an error
NoBridge == [st |-> "unbound", drvdata |-> FALSE, max_lanes |-> 0,
             lane_mapping |-> [p \in Ports |-> <<0, 0, 0, 0>>],
             dp_lanes |-> <<0, 0, 0, 0>>, num_lanes |-> 0, dp_mode |-> -1,
             refused |-> FALSE, last |-> NoCall]

Init ==
    /\ ktest = NoTest
    /\ conf = NoConf
    /\ bridge = NoBridge
    /\ component_list = <<>>
    /\ comp = [c \in Comps |-> FreeComp]
    /\ adev = [a \in Aggs |-> NoAdev]
    /\ devlock = [a \in Aggs |-> 0]
    /\ component_mutex = 0
    /\ thr = [t \in Threads |-> Idle]
    /\ sys = "up"
    /\ ev = NoEv

CanRun(t, pc) == sys = "up" /\ thr[t].pc = pc

\* no thread is inside a call
Quiet == \A t \in Threads : thr[t].pc \in {"idle", "dead"}

\* A call is made by the first thread that is free (which thread it is makes
\* no difference to the code).
CanCall(t) ==
    /\ CanRun(t, "idle")
    /\ \A u \in Threads : thr[u].pc = "idle" => t <= u
MutexFree == component_mutex = 0

\* A NULL dereference inside a walk: the kernel oopses.  The thread is killed
\* where it stands, with what it holds still held, or the machine panics.
Oops(t) ==
    /\ thr' = [thr EXCEPT ![t] = [Idle EXCEPT !.pc = "dead"]]
    /\ sys' \in {"up", "panic"}

\* ------------------------------------------------------------ __component_add
\* kzalloc, then list_add_tail under component_mutex; bus_rescan_devices
\* follows in the steps Rescan and RescanProbe, and then the return of 0.
\* thr.ret keeps the result of the last probe the rescan made.
\* (A call that fails before it touches anything is looked at only while no
\* other call is under way: it reads and writes nothing the others see.)
__component_add(t, op, c, subcomponent, allocOk) ==
    IF ~allocOk
    THEN /\ Quiet
         /\ ev' = [Ret(op, c, 0, -ENOMEM) EXCEPT !.list = component_list,
                                                !.k = subcomponent]
         /\ UNCHANGED <<component_list, comp, thr>>
    ELSE /\ component_list' = Append(component_list, c)
         /\ comp' = [comp EXCEPT ![c] = [FreeComp EXCEPT !.st = "listed",
                                          !.subcomponent = subcomponent]]
         /\ thr' = [thr EXCEPT ![t] = [Idle EXCEPT !.pc = "rescan", !.op = op,
                                                   !.c = c, !.a = 1]]
         /\ ev' = [Ret("listed", c, 0, 0) EXCEPT !.list = component_list,
                                                     !.k = subcomponent]

\* an __component_add that hands on what bus_rescan_devices returned
component_add_return_ret(ret) == ret

\* what __component_add returns when bus_rescan_devices returned ret
component_add_return(ret) == 0

\* component_add(dev, ops)
component_add(t, c) ==
    /\ CanCall(t) /\ MutexFree
    /\ ~Typed(c)
    /\ comp[c].st = "free"
    /\ \E allocOk \in BOOLEAN : __component_add(t, "add", c, 0, allocOk)
    /\ UNCHANGED <<adev, devlock, component_mutex, sys>>

\* a component_add_typed without the test of subcomponent
component_add_typed_unchecked(t, c, subcomponent) ==
    /\ CanCall(t) /\ MutexFree
    /\ Typed(c)
    /\ comp[c].st = "free"
    /\ \E allocOk \in BOOLEAN :
          __component_add(t, "add_typed", c, subcomponent, allocOk)
    /\ UNCHANGED <<adev, devlock, component_mutex, sys>>

\* component_add_typed(dev, ops, subcomponent)
component_add_typed(t, c, subcomponent) ==
    /\ CanCall(t) /\ MutexFree
    /\ Typed(c)
    /\ comp[c].st = "free"
    /\ IF subcomponent = 0
       THEN /\ Quiet
            /\ ev' = [Ret("add_typed", c, 0, -EINVAL) EXCEPT
                         !.list = component_list]
            /\ UNCHANGED <<component_list, comp, thr>>
       ELSE \E allocOk \in BOOLEAN :
               __component_add(t, "add_typed", c, subcomponent, allocOk)
    /\ UNCHANGED <<adev, devlock, component_mutex, sys>>

\* ------------------------------------------------------- bus_rescan_devices
\* The walk over the devices of the aggregate bus goes on at the next device
\* that has no driver and whose driver is registered.  That device is
\* attached: under its device lock the bus match callback runs
\* (aggregate_device_match compares adev->adrv and calls find_components
\* under component_mutex); when it returns 1 the probe follows in
\* RescanProbe, the device lock still held.  After the last device
\* __component_add returns 0.
aggregate_device_match(cl, h, a) == find_components(cl, h, a)

NextDev(from) ==
    LET S == {a \in Aggs : /\ a >= from
                           /\ adev[a].st = "bus"
                           /\ ~adev[a].driver
                           /\ adev[a].drvreg}
    IN  IF S = {} THEN 0 ELSE Min(S)

Rescan(t) ==
    /\ CanRun(t, "rescan")
    /\ LET a == NextDev(thr[t].a) IN
       IF a = 0
       THEN /\ thr' = [thr EXCEPT ![t] = Idle]
            /\ ev' = [Ret("add_return", thr[t].c, 0,
                          component_add_return(thr[t].ret))
                         EXCEPT !.err = thr[t].ret]
            /\ UNCHANGED <<comp, adev, devlock>>
       ELSE /\ devlock[a] = 0
            /\ MutexFree
            /\ LET r == aggregate_device_match(component_list, Heap, a) IN
               /\ comp' = r.comp
               /\ adev' = r.ad
               /\ IF r.ret = 1
                  THEN /\ devlock' = [devlock EXCEPT ![a] = t]
                       /\ thr' = [thr EXCEPT ![t].pc = "rescan_probe", ![t].a = a]
                  ELSE /\ thr' = [thr EXCEPT ![t].a = a + 1]
                       /\ UNCHANGED devlock
               /\ ev' = Ret("match", 0, a, r.ret)
    /\ UNCHANGED <<component_list, component_mutex, sys>>

\* The probe of aggregate device a by thread t, which holds the device lock:
\* aggregate_driver_probe under component_mutex, then the driver core keeps
\* the driver bound when it returned 0.  next is where the thread goes on.
Probe(t, a, next) ==
    /\ MutexFree
    /\ \E in \in ProbeInputs(Len(adev[a].match)) :
         LET w == aggregate_driver_probe(Heap, a, in) IN
         /\ comp' = w.comp
         /\ ev' = Ev("probe", 0, a, w, BoundOf(comp, a))
         /\ IF w.fault
            THEN /\ adev' = w.ad
                 /\ component_mutex' = t
                 /\ devlock' = [devlock EXCEPT ![a] = t]
                 /\ Oops(t)
            ELSE /\ adev' = [w.ad EXCEPT ![a].driver = (w.ret = 0)]
                 /\ devlock' = [devlock EXCEPT ![a] = 0]
                 /\ thr' = [thr EXCEPT ![t] = IF next.pc = "rescan"
                                              THEN [next EXCEPT !.ret = w.ret]
                                              ELSE next]
                 /\ UNCHANGED <<component_mutex, sys>>

RescanProbe(t) ==
    /\ CanRun(t, "rescan_probe")
    /\ Probe(t, thr[t].a, [thr[t] EXCEPT !.pc = "rescan", !.a = @ + 1])
    /\ UNCHANGED component_list

\* ------------------- component_aggregate_register / _master_add_with_match
\* aggregate_device_add puts the device on the aggregate bus (no driver of
\* the bus is for it yet), aggregate_driver_register puts its driver there;
\* driver_register then walks the devices of the bus: the match callback in
\* RegMatch and, when it returned 1, the probe in RegProbe.  legacy tells
\* component_master_add_with_match from component_aggregate_register.
aggregate_device_add(a, match, legacy) ==
    [NoAdev EXCEPT !.st = "bus", !.drvreg = TRUE, !.legacy = legacy,
                   !.match = match]

Register(t, a, match, allocOk) ==
    /\ CanCall(t)
    /\ adev[a].st = "none"
    /\ IF allocOk
       THEN /\ adev' = [adev EXCEPT ![a] = aggregate_device_add(a, match, Legacy(a))]
            /\ thr' = [thr EXCEPT ![t] = [Idle EXCEPT !.pc = "reg_match",
                                                      !.op = "register", !.a = a]]
            /\ ev' = NoEv
       ELSE /\ Quiet
            /\ ev' = Ret("register", 0, 0, -ENOMEM)
            /\ UNCHANGED <<adev, thr>>
    /\ UNCHANGED <<component_list, comp, devlock, component_mutex, sys>>

RegMatch(t) ==
    /\ CanRun(t, "reg_match") /\ MutexFree
    /\ LET a == thr[t].a
           r == aggregate_device_match(component_list, Heap, a)
       IN  /\ comp' = r.comp
           /\ adev' = r.ad
           /\ IF r.ret = 1
              THEN thr' = [thr EXCEPT ![t].pc = "reg_probe"]
              ELSE thr' = [thr EXCEPT ![t] = Idle]
           /\ ev' = Ret("match", 0, a, r.ret)
    /\ UNCHANGED <<component_list, devlock, component_mutex, sys>>

\* __driver_attach takes the device lock and probes unless the device got a
\* driver in the meantime; the register call then returns 0.
RegProbe(t) ==
    /\ CanRun(t, "reg_probe")
    /\ LET a == thr[t].a IN
       /\ devlock[a] = 0
       /\ IF adev[a].driver
          THEN /\ thr' = [thr EXCEPT ![t] = Idle]
               /\ ev' = Ret("register", 0, a, 0)
               /\ UNCHANGED <<comp, adev, devlock, component_mutex, sys>>
          ELSE Probe(t, a, Idle)
    /\ UNCHANGED component_list

\* ------------------------------------------------------------ component_del
\* Under component_mutex: list_del and, when the component is attached,
\* remove_component.  The forced unbind follows in DelDetach.  A component
\* is deleted by the driver that added it, while it is on the list.
component_del(t, c) ==
    /\ CanCall(t) /\ MutexFree
    /\ comp[c].st = "listed"
    /\   LET a == comp[c].adev
                i == CHOOSE j \in 1..Len(component_list) : component_list[j] = c
            IN  /\ component_list' = RemoveAt(component_list, i)
                /\ IF a # 0
                   THEN /\ adev' = [adev EXCEPT
                                      ![a].match = remove_component(@, c),
                                      ![a].probed = @ /\ ~comp[c].bound]
                        /\ comp' = [comp EXCEPT ![c].st = "dying"]
                        /\ thr' = [thr EXCEPT ![t] =
                                     [pc |-> "del_detach", op |-> "del", c |-> c,
                                      a |-> a, ret |-> 0,
                                      pre |-> BoundOf(comp, a)]]
                        /\ ev' = Ret("unlisted", c, a, 0)
                   ELSE /\ comp' = [comp EXCEPT ![c] = FreeComp]
                        /\ ev' = Ret("del", c, 0, 0)
                        /\ UNCHANGED <<adev, thr>>
    /\ UNCHANGED <<devlock, component_mutex, sys>>

\* device_driver_detach(&adev->dev) under the device lock: a bound driver is
\* removed (aggregate_driver_remove).  Then device_link_del, put_device and
\* kfree(component).
DelDetach(t) ==
    /\ CanRun(t, "del_detach")
    /\ LET a == thr[t].a
           c == thr[t].c
       IN  /\ devlock[a] = 0
           /\ IF adev[a].driver
              THEN LET w == aggregate_driver_remove(Heap, a) IN
                   /\ ev' = Ev("del", c, a, w, thr[t].pre)
                   /\ IF w.fault
                      THEN /\ comp' = w.comp
                           /\ adev' = w.ad
                           /\ devlock' = [devlock EXCEPT ![a] = t]
                           /\ Oops(t)
                      ELSE LET h == put_device(
                                      [comp |-> w.comp,
                                       ad |-> [w.ad EXCEPT ![a].driver = FALSE]], a)
                           IN  /\ comp' = [h.comp EXCEPT ![c] = FreeComp]
                               /\ adev' = h.ad
                               /\ thr' = [thr EXCEPT ![t] = Idle]
                               /\ UNCHANGED <<devlock, sys>>
              ELSE LET h == put_device(Heap, a) IN
                   /\ comp' = [h.comp EXCEPT ![c] = FreeComp]
                   /\ adev' = h.ad
                   /\ thr' = [thr EXCEPT ![t] = Idle]
                   /\ ev' = [Ret("del", c, a, 0) EXCEPT !.pre = thr[t].pre]
                   /\ UNCHANGED <<devlock, sys>>
    /\ UNCHANGED <<component_list, component_mutex>>

\* ------------------------ component_aggregate_unregister / _master_del
\* The aggregate device is looked up under component_mutex.  Unregistering
\* the device (or, for component_master_del, its bound driver first) removes
\* a bound driver under the device lock; the device leaves the bus and its
\* structure is freed once the components attached to it have dropped their
\* references.
device_unregister(h, a) ==
    LET h2 == [comp |-> h.comp,
               ad |-> [h.ad EXCEPT ![a].st = "zombie", ![a].driver = FALSE,
                                   ![a].drvreg = FALSE]]
    IN  IF h2.ad[a].refs = 0 THEN free_aggregate_device(h2, a) ELSE h2

Unregister(t, a) ==
    /\ CanCall(t) /\ MutexFree
    /\ adev[a].st = "bus"
    /\ \A u \in Threads : ~(thr[u].op = "register" /\ thr[u].a = a)
    /\ devlock[a] = 0
    /\ LET op == IF adev[a].legacy THEN "master_del" ELSE "unregister" IN
       IF adev[a].driver
       THEN LET w == aggregate_driver_remove(Heap, a) IN
            /\ ev' = Ev(op, 0, a, w, BoundOf(comp, a))
            /\ IF w.fault
               THEN /\ comp' = w.comp
                    /\ adev' = w.ad
                    /\ devlock' = [devlock EXCEPT ![a] = t]
                    /\ Oops(t)
               ELSE LET h == device_unregister([comp |-> w.comp, ad |-> w.ad], a)
                    IN  /\ comp' = h.comp
                        /\ adev' = h.ad
                        /\ UNCHANGED <<devlock, thr, sys>>
       ELSE LET h == device_unregister(Heap, a) IN
            /\ comp' = h.comp
            /\ adev' = h.ad
            /\ ev' = Ret(op, 0, a, 0)
            /\ UNCHANGED <<devlock, thr, sys>>
    /\ UNCHANGED <<component_list, component_mutex>>

\* ------------------------------------------------------------ specification
\* The calls and steps of the threads on the aggregate devices A; with
\* serial, a call starts only when no other call is under way.
NextOn(A, serial) ==
    \/ /\ serial => Quiet
       /\ UNCHANGED component_frame
       /\ \/ \E t \in Threads, c \in Comps : component_add(t, c)
          \/ \E t \in Threads, c \in Comps, s \in Subs : component_add_typed(t, c, s)
          \/ \E t \in Threads, c \in Comps : component_del(t, c)
          \/ \E t \in Threads, a \in A, m \in MatchLists, ok \in BOOLEAN :
                Register(t, a, m, ok)
          \/ \E t \in Threads, a \in A : Unregister(t, a)
    \/ \E t \in Threads : Rescan(t) /\ UNCHANGED component_frame
    \/ \E t \in Threads : RescanProbe(t) /\ UNCHANGED component_frame
    \/ \E t \in Threads : RegMatch(t) /\ UNCHANGED component_frame
    \/ \E t \in Threads : RegProbe(t) /\ UNCHANGED component_frame
    \/ \E t \in Threads : DelDetach(t) /\ UNCHANGED component_frame

\* calls that overlap, around one aggregate device
Next == NextOn({1}, FALSE)

Spec == Init /\ [][Next]_vars

\* calls one after the other, on two aggregate devices
NextSerial == NextOn(Aggs, TRUE)

SpecSerial == Init /\ [][NextSerial]_vars

\* ------------------------------------------------------------------ claims
Reverse(s) == [j \in 1..Len(s) |-> s[Len(s) + 1 - j]]

Indices(log) == {log[j].i : j \in 1..Len(log)}

Ascending(log) == \A j \in 1..(Len(log) - 1) : log[j].i < log[j + 1].i

Descending(log) == \A j \in 1..(Len(log) - 1) : log[j].i > log[j + 1].i

InList(c) == \E j \in 1..Len(component_list) : component_list[j] = c

\* the entries below k of aggregate a that are not duplicates
NonDuplicateBelow(a, k) ==
    {i \in 1..(k - 1) : adev[a].match[i].duplicate = FALSE}

\* C1: when the bind callback of the non-duplicate component at match index
\* k returns nonzero in component_bind_all, the components this call bound
\* are exactly the non-duplicate entries below k, they are unbound again in
\* descending index order, the call returns that error, and on return no
\* component of the aggregate is bound.
C1_BindAllRollsBack ==
    (ev.op = "probe" /\ ev.k # 0) =>
        /\ ~ev.fault
        /\ ev.err # 0 /\ ev.ret = ev.err
        /\ Ascending(ev.binds)
        /\ Indices(ev.binds) = NonDuplicateBelow(ev.a, ev.k)
        /\ ev.unbinds = Reverse(ev.binds)
        /\ BoundOf(comp, ev.a) = {}

\* a bind that failed at the third entry after two components were bound
C1_Witness ==
    /\ ev.op = "probe" /\ ev.k = 3
    /\ Len(ev.binds) = 2 /\ Len(ev.unbinds) = 2

\* C2: component_del of a component bound into an aggregate runs the
\* aggregate driver's remove callback, and its component_unbind_all unbinds
\* every component that was bound, the deleted one included, before
\* component_del returns.
C2_DelUnbindsAll ==
    (ev.op = "del" /\ ev.c \in ev.pre) =>
        /\ ev.called
        /\ ~ev.fault
        /\ \A x \in ev.pre :
             /\ \E j \in 1..Len(ev.unbinds) : ev.unbinds[j].c = x
             /\ ~comp[x].bound

\* C3: whenever the aggregate driver's probe callback runs, every entry of
\* the aggregate's match list has a component attached.
C3_ProbeSeesAllAttached ==
    (ev.op = "probe" /\ ev.called) => ev.nulls = {}

\* every entry of the match list of aggregate a is attached or has a listed
\* component it matches that is not attached to another aggregate
Available(a) ==
    \A i \in 1..Len(adev[a].match) :
        \/ adev[a].match[i].component # 0
        \/ find_component(component_list, comp, a, adev[a].match[i]) # 0

\* aggregate a is registered with its driver, all its components are
\* available, and it has not been probed since
Waiting(a) ==
    /\ adev[a].st = "bus" /\ adev[a].drvreg
    /\ Available(a)
    /\ ~adev[a].probed

\* C4: once every match entry of a registered aggregate has an available
\* component, the aggregate is probed: the probe comes synchronously, from
\* the bus rescan of component_add or the driver registration, so when the
\* calls have returned no aggregate is left waiting, also after a bound
\* component was deleted and a matching one added again.
C4_AvailableIsProbed ==
    (Quiet /\ sys = "up") => \A a \in Aggs : ~Waiting(a)

\* the listed components entry e accepts, whatever they are attached to
Accepts(e) ==
    {c \in Comps :
        /\ InList(c)
        /\ \/ e.compare /\ compare(DevOf(c), e.data)
           \/ e.compare_typed /\ compare_typed(DevOf(c), comp[c].subcomponent, e.data)}

\* C5 as stated: a component attached to one aggregate can be attached by a
\* match entry of a second aggregate too; so after the match of an
\* aggregate, an entry that is left without a component accepts no listed
\* component at all.
C5_SharedAcrossAggregates ==
    (ev.op = "match" /\ adev[ev.a].st = "bus") =>
        \A i \in 1..Len(adev[ev.a].match) :
            (/\ adev[ev.a].match[i].component = 0
             /\ \A j \in 1..(i - 1) : adev[ev.a].match[j].component # 0)
            => Accepts(adev[ev.a].match[i]) = {}

\* the entries of aggregate a other than i that hold component c and are
\* not recorded as duplicates
Originals(a, i, c) ==
    {j \in 1..Len(adev[a].match) :
        /\ j # i
        /\ adev[a].match[j].component = c
        /\ adev[a].match[j].duplicate = FALSE}

\* C5: a component is attached to one aggregate at most: every match entry
\* holds a component that is attached to the entry's own aggregate, and an
\* entry is recorded as duplicate exactly when another entry of the same
\* match list holds the same component and is not a duplicate.
C5_AttachedToOneAggregate ==
    \A a \in Aggs : \A i \in 1..Len(adev[a].match) :
        LET e == adev[a].match[i] IN
        e.component # 0 =>
            /\ comp[e.component].adev = a
            /\ e.duplicate \in BOOLEAN
            /\ e.duplicate <=> Originals(a, i, e.component) # {}

\* the match of the second aggregate has left an entry without a component
\* although a listed component it accepts is attached to the first, while
\* the first aggregate holds a duplicate of its own
C5_Witness ==
    /\ ev.op = "match" /\ ev.a = 2 /\ ev.ret = 0
    /\ adev[2].st = "bus"
    /\ \E c \in Accepts(adev[2].match[1]) : comp[c].adev = 1
    /\ adev[2].match[1].component = 0
    /\ \E i \in 1..Len(adev[1].match) :
          /\ adev[1].match[i].component # 0
          /\ adev[1].match[i].duplicate = TRUE

\* C6: component_master_del and component_aggregate_unregister on an
\* aggregate whose driver is bound run the remove callback, and when the
\* call returns no component of the aggregate is bound and the aggregate
\* device is off the bus.
C6_UnregisterDisassembles ==
    (ev.op \in {"master_del", "unregister"} /\ ev.called) =>
        /\ ~ev.fault
        /\ \A x \in ev.pre : ~comp[x].bound
        /\ adev[ev.a].st # "bus"

\* C7: component_bind_all calls the bind callbacks in ascending index order
\* and component_unbind_all the unbind callbacks in descending index order;
\* every component that is unbound is the one bound last among those still
\* bound, and a walk that unbinds them all unbinds the reverse of the order
\* in which they were bound.
C7_UnbindReversesBind ==
    /\ Ascending(ev.binds)
    /\ Descending(ev.unbinds)
    /\ ev.lifo
    /\ ~ev.warn
    /\ (ev.op \in {"del", "master_del", "unregister"} /\ ev.called /\ ~ev.fault)
         => /\ ev.pre = {ev.unbinds[j].c : j \in 1..Len(ev.unbinds)}
            /\ Len(ev.unbinds) = Cardinality(ev.pre)

\* C8: an entry added with component_match_add is only ever attached to a
\* component added with component_add (subcomponent 0).
C8_CompareOnlyUntyped ==
    \A a \in Aggs : \A i \in 1..Len(adev[a].match) :
        LET e == adev[a].match[i] IN
        (e.compare /\ e.component # 0) => comp[e.component].subcomponent = 0

\* C9 as stated: component_add_typed with subcomponent 0 returns -EINVAL and
\* leaves component_list as it was; with a nonzero subcomponent the component
\* is appended to component_list with that subcomponent.
C9_AddTypedAlwaysAppends ==
    /\ (ev.op = "add_typed" /\ ev.k = 0) =>
          ev.ret = -EINVAL /\ component_list = ev.list
    /\ (ev.op \in {"add_typed", "listed"} /\ ev.k # 0) =>
          /\ ev.op = "listed"
          /\ component_list = Append(ev.list, ev.c)
          /\ comp[ev.c].subcomponent = ev.k

\* C9: component_add_typed with subcomponent 0 returns -EINVAL and leaves
\* component_list as it was; with a nonzero subcomponent the component is
\* appended to component_list with that subcomponent when its structure
\* could be allocated, and otherwise the call returns -ENOMEM and leaves
\* component_list as it was.
C9_AddTyped ==
    /\ (ev.op = "add_typed" /\ ev.k = 0) =>
          ev.ret = -EINVAL /\ component_list = ev.list
    /\ (ev.op = "add_typed" /\ ev.k # 0) =>
          ev.ret = -ENOMEM /\ component_list = ev.list
    /\ (ev.op = "listed" /\ ev.k # 0) =>
          /\ component_list = Append(ev.list, ev.c)
          /\ comp[ev.c].st = "listed"
          /\ comp[ev.c].subcomponent = ev.k

\* a typed component was appended behind another component
C9_Witness ==
    /\ ev.op = "listed" /\ ev.k # 0
    /\ ev.list # <<>>
    /\ Last(component_list) = ev.c

\* C10: a component_add that got its structure returns 0 whatever the probe
\* of the rescan did, and a component leaves component_list only through
\* component_del.
C10_AddReturnsZero ==
    [][ /\ ev'.op = "add_return" => ev'.ret = 0
        /\ \A c \in Comps :
              (InList(c) /\ ~InList(c)') =>
                  ev'.op \in {"unlisted", "del"} /\ ev'.c = c ]_vars

\* component_add has returned 0 after the probe of its rescan failed, and
\* the component is on the list
C10_Witness ==
    /\ ev.op = "add_return" /\ ev.ret = 0
    /\ ev.err # 0
    /\ InList(ev.c)


\* ============================================================================
\* KUnit test managed platform devices and drivers (component.c 970-1143).
\* A test runs its body (phase "run"), then KUnit frees the resources of the
\* test, the last added first (phase "exit"), until none is left ("done").

EEXIST == 17

\* pointers: to a platform device, to the platform driver of the test, and to
\* the context structure KUnit allocates for a deferred action
PdevPtr(p) == [kind |-> "pdev", id |-> p]
PdrvPtr == [kind |-> "pdrv", id |-> 1]
ActionCtx(n) == [kind |-> "action_ctx", id |-> n]

\* put_device on the device of p: the last reference frees it; a put after
\* that is a reference count underflow on freed memory
platform_device_put(t, p) ==
    LET d == t.dev[p] IN
    IF d.refs = 0
    THEN [t EXCEPT !.dev[p].underflow = TRUE, !.dev[p].drops = @ + 1]
    ELSE [t EXCEPT !.dev[p].refs = @ - 1, !.dev[p].drops = @ + 1,
                   !.dev[p].st = IF d.refs = 1 THEN "freed" ELSE @]

\* platform_device_del: the device leaves the platform bus, which drops the
\* reference the bus held
platform_device_del(t, p) ==
    IF t.dev[p].st = "added"
    THEN [t EXCEPT !.dev[p].st = "alloc", !.dev[p].refs = @ - 1]
    ELSE IF t.dev[p].st = "freed" THEN [t EXCEPT !.dev[p].underflow = TRUE]
    ELSE t

\* platform_device_unregister = platform_device_del + platform_device_put
platform_device_unregister(t, p) ==
    platform_device_put(platform_device_del(t, p), p)

platform_driver_unregister(t) ==
    [t EXCEPT !.drv.st = "unregistered", !.drv.unregs = @ + 1]

\* the devices on the platform bus
Registered(t) == {q \in PDevs : t.dev[q].st = "added"}

\* platform_device_add: fails with -EEXIST when a device of the same name
\* and id is on the bus, or with nomem; otherwise the device is on the bus
\* and a registered driver probes it.  A failure leaves the reference with
\* the caller.
platform_device_add(t, p, nomem) ==
    IF \E q \in Registered(t) : q # p /\ t.dev[q].id = t.dev[p].id
    THEN [t EXCEPT !.dev[p].addret = -EEXIST]
    ELSE IF nomem THEN [t EXCEPT !.dev[p].addret = -ENOMEM]
    ELSE [t EXCEPT !.dev[p].st = "added", !.dev[p].refs = @ + 1,
                   !.dev[p].addret = 0,
                   !.dev[p].probed = (t.drv.st = "registered")]

ClkPtr(c) == [kind |-> "clk", id |-> c]
HwPtr(h) == [kind |-> "clk_hw", id |-> h]

\* clk_disable_unprepare(clk)
clk_disable_unprepare(t, c) ==
    IF t.clk[c].st # "held" \/ t.clk[c].en = 0
    THEN [t EXCEPT !.clk[c].bad = TRUE]
    ELSE [t EXCEPT !.clk[c].en = @ - 1]

\* clk_put(clk)
clk_put(t, c) ==
    IF t.clk[c].st # "held"
    THEN [t EXCEPT !.clk[c].bad = TRUE]
    ELSE [t EXCEPT !.clk[c].st = "put"]

\* clk_hw_unregister(hw)
clk_hw_unregister(t, h) ==
    IF t.hw[h].st # "registered"
    THEN [t EXCEPT !.hw[h].bad = TRUE]
    ELSE [t EXCEPT !.hw[h].st = "unregistered"]

\* the cleanup function func called with ctx
kunit_action(t, func, ctx) ==
    LET t2 == [t EXCEPT !.log = Append(@, [func |-> func, ctx |-> ctx])] IN
    CASE func = "platform_device_put" -> platform_device_put(t2, ctx.id)
      [] func = "platform_device_unregister" -> platform_device_unregister(t2, ctx.id)
      [] func = "platform_driver_unregister" -> platform_driver_unregister(t2)
      [] func = "clk_disable_unprepare" -> clk_disable_unprepare(t2, ctx.id)
      [] func = "clk_put" -> clk_put(t2, ctx.id)
      [] func = "clk_hw_unregister" -> clk_hw_unregister(t2, ctx.id)

\* platform_device_add_kunit_exit(res): platform_device_unregister(res->data)
platform_device_add_kunit_exit(t, r) ==
    kunit_action(t, "platform_device_unregister", r.data)

\* the free routine of resource r, as KUnit calls it at the end of the test
kunit_resource_free(t, r) ==
    IF r.free = "platform_device_add_kunit_exit"
    THEN platform_device_add_kunit_exit(t, r)
    ELSE kunit_action(t, r.func, r.ctx)

\* what res->data of the resource of a deferred action holds: KUnit stores
\* the action's own context structure there, the n-th resource its n-th
kunit_action_data(n, ctx) == ActionCtx(n)

\* kunit_add_action_or_reset(test, func, ctx): the action becomes the last
\* resource of the test; when its context cannot be allocated the action is
\* called at once and the call returns -ENOMEM.  The result is the test
\* with .call.ret set.
kunit_add_action_or_reset(t, func, ctx, ok) ==
    IF ok
    THEN [t EXCEPT !.res = Append(@, [data |-> kunit_action_data(Len(t.res) + 1, ctx),
                                      free |-> "__kunit_action_free",
                                      func |-> func, ctx |-> ctx]),
                   !.call.ret = 0]
    ELSE [kunit_action(t, func, ctx) EXCEPT !.call.ret = -ENOMEM]

\* platform_device_alloc_kunit_match: res->data == pdev
platform_device_alloc_kunit_match(r, match_data) == r.data = match_data

\* kunit_find_resource(test, match, match_data): the resource added last
\* that the match function accepts, 0 for NULL
kunit_find_resource(t, match_data) ==
    LET S == {n \in 1..Len(t.res) :
                 platform_device_alloc_kunit_match(t.res[n], match_data)}
    IN  IF S = {} THEN 0 ELSE CHOOSE n \in S : \A m \in S : m <= n

TestRuns == ktest.phase = "run"

\* platform_device_alloc_kunit(test, name, id) for the device slot p
platform_device_alloc_kunit(p, id, allocOk, actOk) ==
    /\ TestRuns
    /\ ktest.dev[p].st = "none"
    /\ IF ~allocOk
       THEN ktest' = [ktest EXCEPT
                        !.call = [op |-> "alloc_kunit", p |-> p, ret |-> 0]]
       ELSE LET t1 == [ktest EXCEPT
                         !.dev[p] = [NoPdev EXCEPT !.st = "alloc", !.id = id,
                                                   !.managed = TRUE, !.refs = 1],
                         !.call = [op |-> "alloc_kunit", p |-> p, ret |-> 0]]
                t2 == kunit_add_action_or_reset(t1, "platform_device_put",
                                                PdevPtr(p), actOk)
            IN  ktest' = [t2 EXCEPT !.call.ret = IF t2.call.ret # 0 THEN 0 ELSE p]
    /\ UNCHANGED kunit_frame

\* platform_device_alloc(name, id) by the test itself, which then owns the
\* reference
platform_device_alloc(p, id) ==
    /\ TestRuns
    /\ ktest.dev[p].st = "none"
    /\ ktest' = [ktest EXCEPT
                   !.dev[p] = [NoPdev EXCEPT !.st = "alloc", !.id = id, !.refs = 1],
                   !.call = [op |-> "alloc", p |-> p, ret |-> p]]
    /\ UNCHANGED kunit_frame

\* a platform_device_add_kunit that goes on when platform_device_add failed
platform_device_add_kunit_unchecked(p, nomem, actOk) ==
    /\ TestRuns
    /\ ktest.dev[p].st = "alloc"
    /\ ktest.dev[p].addret = 0
    /\ LET t0 == [ktest EXCEPT !.call = [op |-> "add_kunit", p |-> p, ret |-> 0]]
           t1 == platform_device_add(t0, p, nomem)
           t2 == kunit_add_action_or_reset(
                    t1, "platform_device_unregister", PdevPtr(p), actOk)
       IN  ktest' = [t2 EXCEPT !.dev[p].addret = t1.dev[p].addret,
                               !.call.ret = t1.dev[p].addret]
    /\ UNCHANGED kunit_frame

\* platform_device_add_kunit(test, pdev), once for a device; addret keeps
\* what the call returned
platform_device_add_kunit(p, nomem, actOk) ==
    /\ TestRuns
    /\ ktest.dev[p].st = "alloc"
    /\ ktest.dev[p].addret = 0
    /\ LET t0 == [ktest EXCEPT !.call = [op |-> "add_kunit", p |-> p, ret |-> 0]]
           t1 == platform_device_add(t0, p, nomem)
           ret == t1.dev[p].addret
           res == kunit_find_resource(t1, PdevPtr(p))
           t2 == IF ret # 0 THEN [t1 EXCEPT !.call.ret = ret]
                 ELSE IF res # 0
                      THEN [t1 EXCEPT
                              !.res[res].free = "platform_device_add_kunit_exit"]
                      ELSE kunit_add_action_or_reset(
                              t1, "platform_device_unregister", PdevPtr(p), actOk)
       IN  ktest' = [t2 EXCEPT !.dev[p].addret = t2.call.ret]
    /\ UNCHANGED kunit_frame

\* wait_for_device_probe(): returns when the probes the driver core had put
\* off have run
wait_for_device_probe(t, later) ==
    [t EXCEPT !.dev = [q \in PDevs |->
                         IF q \in later /\ t.dev[q].st = "added"
                         THEN [t.dev[q] EXCEPT !.probed = TRUE] ELSE t.dev[q]]]

\* platform_driver_register(drv): the driver is on the bus and the devices
\* on the bus that it matches are probed, those in later not before the
\* driver core gets to its deferred work
platform_driver_register(t, regOk, later) ==
    IF ~regOk THEN [t EXCEPT !.drv.ret = -ENOMEM]
    ELSE [t EXCEPT !.drv.st = "registered", !.drv.ret = 0,
                   !.dev = [q \in PDevs |->
                              IF q \in Registered(t) \ later
                              THEN [t.dev[q] EXCEPT !.probed = TRUE]
                              ELSE t.dev[q]]]

\* a platform_driver_register_kunit that does not wait for the probes
platform_driver_register_kunit_nowait(regOk, later, actOk) ==
    /\ TestRuns
    /\ ktest.drv.st = "none"
    /\ LET t0 == [ktest EXCEPT !.call = [op |-> "register_kunit", p |-> 0, ret |-> 0],
                               !.drv.before = Registered(ktest)]
           t1 == platform_driver_register(t0, regOk, later)
           t2 == IF t1.drv.ret # 0
                 THEN [t1 EXCEPT !.call.ret = t1.drv.ret]
                 ELSE kunit_add_action_or_reset(
                         t1, "platform_driver_unregister", PdrvPtr, actOk)
       IN  ktest' = [t2 EXCEPT !.drv.managed = (t2.call.ret = 0)]
    /\ UNCHANGED kunit_frame

\* platform_driver_register_kunit(test, drv); before keeps the devices that
\* were on the bus when it was called, managed whether it returned 0
platform_driver_register_kunit(regOk, later, actOk) ==
    /\ TestRuns
    /\ ktest.drv.st = "none"
    /\ LET t0 == [ktest EXCEPT !.call = [op |-> "register_kunit", p |-> 0, ret |-> 0],
                               !.drv.before = Registered(ktest)]
           t1 == platform_driver_register(t0, regOk, later)
           t2 == IF t1.drv.ret # 0
                 THEN [t1 EXCEPT !.call.ret = t1.drv.ret]
                 ELSE kunit_add_action_or_reset(
                         wait_for_device_probe(t1, later),
                         "platform_driver_unregister", PdrvPtr, actOk)
       IN  ktest' = [t2 EXCEPT !.drv.managed = (t2.call.ret = 0)]
    /\ UNCHANGED kunit_frame

\* the test body returns
TestEnd ==
    /\ TestRuns
    /\ ktest' = [ktest EXCEPT !.phase = IF ktest.res = <<>> THEN "done" ELSE "exit",
                              !.call = [op |-> "none", p |-> 0, ret |-> 0]]
    /\ UNCHANGED kunit_frame

\* kunit_cleanup: the resource added last is removed and freed
kunit_cleanup ==
    /\ ktest.phase = "exit"
    /\ LET n == Len(ktest.res)
           t1 == kunit_resource_free([ktest EXCEPT !.res = SubSeq(@, 1, n - 1)],
                                     ktest.res[n])
       IN  ktest' = [t1 EXCEPT !.phase = IF n = 1 THEN "done" ELSE "exit"]
    /\ UNCHANGED kunit_frame

NextKunit ==
    \/ \E p \in PDevs, id \in DevIds, allocOk \in BOOLEAN, actOk \in BOOLEAN :
          platform_device_alloc_kunit(p, id, allocOk, actOk)
    \/ \E p \in PDevs, id \in DevIds : platform_device_alloc(p, id)
    \/ \E p \in PDevs, nomem \in BOOLEAN, actOk \in BOOLEAN :
          platform_device_add_kunit(p, nomem, actOk)
    \/ \E regOk \in BOOLEAN, later \in SUBSET PDevs, actOk \in BOOLEAN :
          platform_driver_register_kunit(regOk, later, actOk)
    \/ TestEnd
    \/ kunit_cleanup

SpecKunit == Init /\ [][NextKunit]_vars

\* ------------------------------------------------ claims, KUnit platform
\* how often cleanup function func was called for pointer ctx
Calls(func, ctx) ==
    Cardinality({n \in 1..Len(ktest.log) :
                    ktest.log[n] = [func |-> func, ctx |-> ctx]})

\* platform_device_add_kunit has put device p on the bus
AddedByKunit(p) ==
    \/ ktest.dev[p].st = "added"
    \/ Calls("platform_device_unregister", PdevPtr(p)) > 0

\* C11: a device added with platform_device_add_kunit is unregistered
\* exactly once by the cleanup of the test; for a device that came from
\* platform_device_alloc_kunit the unregister replaces the pending
\* platform_device_put, so that its reference is dropped once in all and the
\* reference count never underflows.
C11_AddKunitDropsOnce ==
    \A p \in PDevs :
        AddedByKunit(p) =>
            /\ ~ktest.dev[p].underflow
            /\ ktest.phase = "done" =>
                 /\ Calls("platform_device_unregister", PdevPtr(p)) = 1
                 /\ ktest.dev[p].drops = 1
                 /\ ktest.dev[p].managed =>
                      Calls("platform_device_put", PdevPtr(p)) = 0

\* the resources of the test that unregister device p
UnregisterResources(p) ==
    {n \in 1..Len(ktest.res) :
        /\ ktest.res[n].ctx = PdevPtr(p)
        /\ \/ ktest.res[n].func = "platform_device_unregister"
           \/ ktest.res[n].free = "platform_device_add_kunit_exit"}

\* C12: a platform_device_add_kunit that fails because a device of the same
\* name and id is registered returns nonzero; no unregister is registered or
\* called for the failed device, the failed device (from
\* platform_device_alloc_kunit) has been put exactly once when the test is
\* over, and a device that was added stays on the bus while the test runs.
C12_AddTwiceFails ==
    /\ \A p \in PDevs :
          ktest.dev[p].addret = -EEXIST =>
              /\ (ktest.call.op = "add_kunit" /\ ktest.call.p = p) =>
                    /\ ktest.call.ret # 0
                    /\ \E q \in Registered(ktest) : ktest.dev[q].id = ktest.dev[p].id
              /\ UnregisterResources(p) = {}
              /\ Calls("platform_device_unregister", PdevPtr(p)) = 0
              /\ ktest.dev[p].st # "added"
              /\ (ktest.phase = "done" /\ ktest.dev[p].managed) =>
                    /\ Calls("platform_device_put", PdevPtr(p)) = 1
                    /\ ktest.dev[p].drops = 1
                    /\ ~ktest.dev[p].underflow
    /\ \A p, q \in Registered(ktest) : ktest.dev[p].id = ktest.dev[q].id => p = q
    /\ \A q \in PDevs :
          (ktest.phase = "run" /\ AddedByKunit(q) /\ ktest.dev[q].addret = 0)
              => q \in Registered(ktest)

\* the test is over, a second device of the same name and id was refused
\* and the first one has been unregistered by its own cleanup
C12_Witness ==
    /\ ktest.phase = "done"
    /\ \E p, q \in PDevs :
          /\ ktest.dev[p].addret = -EEXIST /\ ktest.dev[p].managed
          /\ ktest.dev[q].id = ktest.dev[p].id
          /\ Calls("platform_device_unregister", PdevPtr(q)) = 1

\* C13: a device from platform_device_alloc_kunit has its reference dropped
\* exactly once when the test is over, never twice and never below zero; when
\* the cleanup action cannot be registered the device is put at once, NULL is
\* returned and nothing is left to clean up.
C13_AllocKunitPutOnce ==
    \A p \in PDevs :
        ktest.dev[p].managed =>
            /\ ~ktest.dev[p].underflow
            /\ ktest.dev[p].drops <= 1
            /\ ktest.phase = "done" =>
                  /\ ktest.dev[p].drops = 1
                  /\ ktest.dev[p].st = "freed"
            /\ (ktest.call.op = "alloc_kunit" /\ ktest.call.p = p
                    /\ ktest.call.ret = 0) =>
                  /\ ktest.dev[p].drops = 1
                  /\ ktest.dev[p].st = "freed"
                  /\ \A n \in 1..Len(ktest.res) : ktest.res[n].ctx # PdevPtr(p)

\* the positions in the log of the calls of func on ctx
CallsAt(func, ctx) ==
    {n \in 1..Len(ktest.log) : ktest.log[n] = [func |-> func, ctx |-> ctx]}

\* C14: when platform_driver_register_kunit returns 0 every device that was
\* on the bus before the call has been probed; the driver is unregistered
\* exactly once at the end of the test, not while the test runs, and before
\* any of those devices is unregistered.
C14_DriverRegisterProbes ==
    ktest.drv.managed =>
        /\ \A q \in ktest.drv.before : ktest.dev[q].probed
        /\ ktest.phase = "run" =>
              /\ ktest.drv.st = "registered"
              /\ CallsAt("platform_driver_unregister", PdrvPtr) = {}
        /\ ktest.phase = "done" =>
              /\ Cardinality(CallsAt("platform_driver_unregister", PdrvPtr)) = 1
              /\ ktest.drv.unregs = 1
        /\ \A q \in ktest.drv.before :
              \A j \in CallsAt("platform_device_unregister", PdevPtr(q)) :
                 \E i \in CallsAt("platform_driver_unregister", PdrvPtr) : i < j

\* the test is over, the driver had been registered after a device, which it
\* probed, and both are unregistered
C14_Witness ==
    /\ ktest.phase = "done"
    /\ ktest.drv.managed
    /\ \E q \in ktest.drv.before :
          /\ ktest.dev[q].probed
          /\ CallsAt("platform_device_unregister", PdevPtr(q)) # {}
    /\ CallsAt("platform_driver_unregister", PdrvPtr) # {}

\* ---------------------------------------------------------------------
\* KUnit helpers for clk providers and consumers (drivers/clk/clk_kunit.c)

\* the errors the clk framework returns in the model
ClkErrs == {-EINVAL}

\* IS_ERR(ptr) for a returned pointer: a clk is returned as its number, an
\* error pointer as its negative errno
IS_ERR(ret) == ret < 0

\* clk_prepare_enable(clk): 0 and the clk is prepared and enabled, or err
clk_prepare_enable(t, c, err) ==
    IF err # 0 THEN [t EXCEPT !.clk[c].tried = TRUE, !.clk[c].enret = err]
    ELSE [t EXCEPT !.clk[c].tried = TRUE, !.clk[c].enret = 0, !.clk[c].en = @ + 1]

\* clk_hw_get_clk(hw, con_id): a new consumer handle c of hw, or err.  The
\* result is the test with .call.ret set.
clk_hw_get_clk(t, c, h, err) ==
    IF err # 0 THEN [t EXCEPT !.call.ret = err]
    ELSE [t EXCEPT !.clk[c].st = "held", !.clk[c].hw = h, !.call.ret = c]

\* clk_hw_register(dev, hw) and of_clk_hw_register(node, hw)
clk_hw_register(t, h, err) ==
    IF err # 0 THEN [t EXCEPT !.hw[h].regret = err]
    ELSE [t EXCEPT !.hw[h].regret = 0, !.hw[h].st = "registered"]

of_clk_hw_register(t, h, err) == clk_hw_register(t, h, err)

\* a clk_prepare_enable_kunit that adds the action whatever
\* clk_prepare_enable returned
clk_prepare_enable_kunit_unchecked(t, c, err, actOk) ==
    LET t1 == clk_prepare_enable(t, c, err)
        t2 == kunit_add_action_or_reset(t1, "clk_disable_unprepare", ClkPtr(c), actOk)
    IN  [t2 EXCEPT !.clk[c].kret = t2.call.ret]

\* clk_prepare_enable_kunit(test, clk)
clk_prepare_enable_kunit(t, c, err, actOk) ==
    LET t1 == clk_prepare_enable(t, c, err)
        ret == t1.clk[c].enret
        t2 == IF ret # 0 THEN [t1 EXCEPT !.call.ret = ret]
              ELSE kunit_add_action_or_reset(t1, "clk_disable_unprepare",
                                             ClkPtr(c), actOk)
    IN  [t2 EXCEPT !.clk[c].kret = t2.call.ret]

\* __clk_get_kunit(test, clk), clk being what t.call.ret holds
__clk_get_kunit(t, actOk) ==
    LET clk == t.call.ret IN
    IF IS_ERR(clk) THEN t
    ELSE LET t1 == kunit_add_action_or_reset(t, "clk_put", ClkPtr(clk), actOk)
         IN  IF t1.call.ret # 0 THEN t1 ELSE [t1 EXCEPT !.call.ret = clk]

\* clk_hw_get_clk_kunit(test, hw, con_id)
clk_hw_get_clk_kunit(t, c, h, err, actOk) ==
    __clk_get_kunit(clk_hw_get_clk(t, c, h, err), actOk)

\* a clk_hw_get_clk_prepared_enabled_kunit that gets the clk with
\* clk_hw_get_clk
clk_hw_get_clk_prepared_enabled_kunit_unmanaged(t, c, h, err, actOk, enErr, enActOk) ==
    LET t1 == clk_hw_get_clk(t, c, h, err)
        clk == t1.call.ret
    IN  IF IS_ERR(clk) THEN t1
        ELSE LET t2 == clk_prepare_enable_kunit(t1, c, enErr, enActOk)
             IN  IF t2.call.ret # 0 THEN t2 ELSE [t2 EXCEPT !.call.ret = clk]

\* clk_hw_get_clk_prepared_enabled_kunit(test, hw, con_id)
clk_hw_get_clk_prepared_enabled_kunit(t, c, h, err, actOk, enErr, enActOk) ==
    LET t1 == clk_hw_get_clk_kunit(t, c, h, err, actOk)
        clk == t1.call.ret
    IN  IF IS_ERR(clk) THEN t1
        ELSE LET t2 == clk_prepare_enable_kunit(t1, c, enErr, enActOk)
             IN  IF t2.call.ret # 0 THEN t2 ELSE [t2 EXCEPT !.call.ret = clk]

\* a clk_hw_register_kunit that adds the action whatever clk_hw_register
\* returned
clk_hw_register_kunit_unchecked(t, h, err, actOk) ==
    LET t1 == clk_hw_register(t, h, err)
        t2 == kunit_add_action_or_reset(t1, "clk_hw_unregister", HwPtr(h), actOk)
    IN  [t2 EXCEPT !.hw[h].kret = t1.hw[h].regret, !.call.ret = t1.hw[h].regret]

\* clk_hw_register_kunit(test, dev, hw)
clk_hw_register_kunit(t, h, err, actOk) ==
    LET t1 == clk_hw_register(t, h, err)
        ret == t1.hw[h].regret
        t2 == IF ret # 0 THEN [t1 EXCEPT !.call.ret = ret]
              ELSE kunit_add_action_or_reset(t1, "clk_hw_unregister", HwPtr(h), actOk)
    IN  [t2 EXCEPT !.hw[h].kret = t2.call.ret]

\* of_clk_hw_register_kunit(test, node, hw)
of_clk_hw_register_kunit(t, h, err, actOk) ==
    LET t1 == of_clk_hw_register(t, h, err)
        ret == t1.hw[h].regret
        t2 == IF ret # 0 THEN [t1 EXCEPT !.call.ret = ret]
              ELSE kunit_add_action_or_reset(t1, "clk_hw_unregister", HwPtr(h), actOk)
    IN  [t2 EXCEPT !.hw[h].kret = t2.call.ret]

\* the test called op on object p
Called(t, op, p) == [t EXCEPT !.call = [op |-> op, p |-> p, ret |-> 0]]

\* the test registers hw h with clk_hw_register_kunit
RegisterHw(h, err, actOk) ==
    /\ TestRuns
    /\ ktest.hw[h].st = "none" /\ ktest.hw[h].how = "none"
    /\ ktest' = clk_hw_register_kunit(
                   [Called(ktest, "clk_hw_register_kunit", h)
                       EXCEPT !.hw[h].how = "clk_hw_register_kunit"], h, err, actOk)
    /\ UNCHANGED kunit_frame

\* the test registers hw h with of_clk_hw_register_kunit
OfRegisterHw(h, err, actOk) ==
    /\ TestRuns
    /\ ktest.hw[h].st = "none" /\ ktest.hw[h].how = "none"
    /\ ktest' = of_clk_hw_register_kunit(
                   [Called(ktest, "of_clk_hw_register_kunit", h)
                       EXCEPT !.hw[h].how = "of_clk_hw_register_kunit"], h, err, actOk)
    /\ UNCHANGED kunit_frame

\* the test gets consumer c of a registered hw h with clk_hw_get_clk_kunit
GetClk(c, h, err, actOk) ==
    /\ TestRuns
    /\ ktest.clk[c].how = "none"
    /\ ktest.hw[h].st = "registered"
    /\ LET t1 == clk_hw_get_clk_kunit(
                    [Called(ktest, "clk_hw_get_clk_kunit", c)
                        EXCEPT !.clk[c].how = "clk_hw_get_clk_kunit"], c, h, err, actOk)
       IN  ktest' = [t1 EXCEPT !.clk[c].gret = t1.call.ret]
    /\ UNCHANGED kunit_frame

\* the test prepares and enables a clk it holds with clk_prepare_enable_kunit
PrepareEnable(c, err, actOk) ==
    /\ TestRuns
    /\ ktest.clk[c].st = "held" /\ ~ktest.clk[c].tried
    /\ ktest' = clk_prepare_enable_kunit(
                   Called(ktest, "clk_prepare_enable_kunit", c), c, err, actOk)
    /\ UNCHANGED kunit_frame

\* the test gets consumer c of a registered hw h with
\* clk_hw_get_clk_prepared_enabled_kunit
GetClkPreparedEnabled(c, h, err, actOk, enErr, enActOk) ==
    /\ TestRuns
    /\ ktest.clk[c].how = "none"
    /\ ktest.hw[h].st = "registered"
    /\ LET t1 == clk_hw_get_clk_prepared_enabled_kunit(
                    [Called(ktest, "clk_hw_get_clk_prepared_enabled_kunit", c)
                        EXCEPT !.clk[c].how = "clk_hw_get_clk_prepared_enabled_kunit"],
                    c, h, err, actOk, enErr, enActOk)
       IN  ktest' = [t1 EXCEPT !.clk[c].gret = t1.call.ret]
    /\ UNCHANGED kunit_frame

NextClk ==
    \/ \E h \in Hws, err \in ClkErrs \cup {0}, actOk \in BOOLEAN :
          RegisterHw(h, err, actOk)
    \/ \E h \in Hws, err \in ClkErrs \cup {0}, actOk \in BOOLEAN :
          OfRegisterHw(h, err, actOk)
    \/ \E c \in Clks, h \in Hws, err \in ClkErrs \cup {0}, actOk \in BOOLEAN :
          GetClk(c, h, err, actOk)
    \/ \E c \in Clks, err \in ClkErrs \cup {0}, actOk \in BOOLEAN :
          PrepareEnable(c, err, actOk)
    \/ \E c \in Clks, h \in Hws, err \in ClkErrs \cup {0}, actOk \in BOOLEAN,
          enErr \in ClkErrs \cup {0}, enActOk \in BOOLEAN :
          GetClkPreparedEnabled(c, h, err, actOk, enErr, enActOk)
    \/ TestEnd
    \/ kunit_cleanup

SpecClk == Init /\ [][NextClk]_vars

\* the resources of the test that call func on ctx
Pending(func, ctx) ==
    {n \in 1..Len(ktest.res) : ktest.res[n].func = func /\ ktest.res[n].ctx = ctx}

ManagedUndo(ret, kret, func, ctx) ==
    /\ Calls(func, ctx) + Cardinality(Pending(func, ctx)) <= 1
    /\ ret # 0 =>
          /\ kret = ret
          /\ Calls(func, ctx) = 0
          /\ Pending(func, ctx) = {}
    /\ (ret = 0 /\ kret = 0) =>
          /\ ktest.phase = "run" =>
                Calls(func, ctx) = 0 /\ Cardinality(Pending(func, ctx)) = 1
          /\ ktest.phase = "done" => Calls(func, ctx) = 1
    /\ (ret = 0 /\ kret # 0) =>
          /\ kret = -ENOMEM
          /\ Calls(func, ctx) = 1
          /\ Pending(func, ctx) = {}

\* C16: clk_prepare_enable_kunit, clk_hw_register_kunit and
\* of_clk_hw_register_kunit return the error of the operation they wrap and
\* register no cleanup when it fails; when it succeeds its undo
\* (clk_disable_unprepare, clk_hw_unregister) runs exactly once: at the end
\* of the test, or at once with an error returned when the action cannot be
\* registered.
C16_ManagedOperations ==
    /\ \A c \in Clks :
          ktest.clk[c].tried =>
              /\ ManagedUndo(ktest.clk[c].enret, ktest.clk[c].kret,
                             "clk_disable_unprepare", ClkPtr(c))
              /\ ktest.phase = "done" => ktest.clk[c].en = 0
              /\ ~ktest.clk[c].bad
    /\ \A h \in Hws :
          ktest.hw[h].how # "none" =>
              /\ ManagedUndo(ktest.hw[h].regret, ktest.hw[h].kret,
                             "clk_hw_unregister", HwPtr(h))
              /\ ktest.phase = "done" => ktest.hw[h].st # "registered"
              /\ ~ktest.hw[h].bad

\* the test is over: one hw was registered with each helper and
\* unregistered, one registration failed, and a clk enabled with
\* clk_prepare_enable_kunit was disabled
C16_Witness ==
    /\ ktest.phase = "done"
    /\ \E h, g \in Hws :
          /\ ktest.hw[h].how = "clk_hw_register_kunit" /\ ktest.hw[h].kret = 0
          /\ ktest.hw[h].st = "unregistered"
          /\ ktest.hw[g].how = "of_clk_hw_register_kunit"
          /\ ktest.hw[g].regret = 0 /\ ktest.hw[g].kret = -ENOMEM
          /\ ktest.hw[g].st = "unregistered"
    /\ \E c \in Clks :
          /\ ktest.clk[c].how = "clk_hw_get_clk_kunit"
          /\ ktest.clk[c].tried /\ ktest.clk[c].kret = 0
          /\ Calls("clk_disable_unprepare", ClkPtr(c)) = 1

\* ---------------------------------------------------------------------
\* Assigned clock parents and rates (drivers/clk/clk-conf.c)

ENOENT == 2
EPROBE_DEFER == 517

\* the longest assigned-clocks, assigned-clock-parents and
\* assigned-clock-rates properties of the node
MaxAssigned == 2

\* an entry of a phandle list of the node: an empty phandle, a clock the
\* node itself supplies, a clock of another provider, and a clock of another
\* provider that has not registered yet
ClkSpecs == {"null", "self", "other", "unready"}

\* the values in assigned-clock-rates
Rates == {0, 100}

SeqsUpTo(S, n) == UNION {[1..k -> S] : k \in 0..n}

\* the device tree nodes of the model
Nodes ==
    [parents : SeqsUpTo(ClkSpecs, MaxAssigned),
     clocks : SeqsUpTo(ClkSpecs, MaxAssigned),
     rates : SeqsUpTo(Rates, MaxAssigned)]

\* of_parse_phandle_with_args(node, list, "#clock-cells", index, &clkspec):
\* -ENOENT past the end of the list and for an empty phandle, else 0 with
\* clkspec.np the node the entry points to
of_parse_phandle_with_args(list, index) ==
    IF index >= Len(list) \/ list[index + 1] = "null"
    THEN [rc |-> -ENOENT, np |-> "none", spec |-> "null"]
    ELSE [rc |-> 0, spec |-> list[index + 1],
          np |-> IF list[index + 1] = "self" THEN "node" ELSE "other"]

\* of_clk_get_from_provider(&clkspec): 0 for a clk, or the error
of_clk_get_from_provider(clkspec) ==
    IF clkspec.spec = "unready" THEN -EPROBE_DEFER ELSE 0

\* what the function did, in order: found the node to supply a clock
\* ("supplier"), clk_set_parent, clk_set_rate; np is the supplier of the clk
\* acted on
ConfEvent(op, index, np) == [op |-> op, index |-> index, np |-> np]

\* __set_clk_parent(node, clk_supplier, index, &stop)
__set_clk_parent(node, clk_supplier, parentErr, index) ==
    LET parent == of_parse_phandle_with_args(node.parents, index)
        clkspec == of_parse_phandle_with_args(node.clocks, index)
    IN  IF parent.rc # 0
        THEN [rc |-> IF parent.rc = -ENOENT THEN 0 ELSE parent.rc,
              stop |-> FALSE, log |-> <<>>]
        ELSE IF parent.np = "node" /\ ~clk_supplier
        THEN [rc |-> parent.rc, stop |-> TRUE,
              log |-> <<ConfEvent("supplier", index, parent.np)>>]
        ELSE IF of_clk_get_from_provider(parent) # 0
        THEN [rc |-> of_clk_get_from_provider(parent), stop |-> FALSE, log |-> <<>>]
        ELSE IF clkspec.rc # 0
        THEN [rc |-> clkspec.rc, stop |-> FALSE, log |-> <<>>]
        ELSE IF clkspec.np = "node" /\ ~clk_supplier
        THEN [rc |-> clkspec.rc, stop |-> TRUE,
              log |-> <<ConfEvent("supplier", index, clkspec.np)>>]
        ELSE IF of_clk_get_from_provider(clkspec) # 0
        THEN [rc |-> of_clk_get_from_provider(clkspec), stop |-> FALSE, log |-> <<>>]
        ELSE [rc |-> parentErr, stop |-> FALSE,
              log |-> <<ConfEvent("clk_set_parent", index, clkspec.np)>>]

\* the loop of __set_clk_parents from index on
RECURSIVE set_clk_parents_from(_, _, _, _, _)
set_clk_parents_from(node, clk_supplier, parentErr, index, log) ==
    IF index >= Len(node.parents) THEN [rc |-> 0, log |-> log]
    ELSE LET r == __set_clk_parent(node, clk_supplier, parentErr, index) IN
         IF r.rc # 0 \/ r.stop THEN [rc |-> r.rc, log |-> log \o r.log]
         ELSE set_clk_parents_from(node, clk_supplier, parentErr, index + 1,
                                   log \o r.log)

\* __set_clk_parents(node, clk_supplier)
__set_clk_parents(node, clk_supplier, parentErr) ==
    set_clk_parents_from(node, clk_supplier, parentErr, 0, <<>>)

\* the loop of __set_clk_rates from the k-th rate on
RECURSIVE set_clk_rates_from(_, _, _, _, _)
set_clk_rates_from(node, clk_supplier, k, index, log) ==
    IF k > Len(node.rates) THEN [rc |-> 0, log |-> log]
    ELSE IF node.rates[k] = 0
    THEN set_clk_rates_from(node, clk_supplier, k + 1, index + 1, log)
    ELSE LET clkspec == of_parse_phandle_with_args(node.clocks, index) IN
         IF clkspec.rc < 0
         THEN IF clkspec.rc = -ENOENT
              THEN set_clk_rates_from(node, clk_supplier, k + 1, index, log)
              ELSE [rc |-> clkspec.rc, log |-> log]
         ELSE IF clkspec.np = "node" /\ ~clk_supplier
         THEN [rc |-> 0, log |-> Append(log, ConfEvent("supplier", index, clkspec.np))]
         ELSE IF of_clk_get_from_provider(clkspec) # 0
         THEN [rc |-> of_clk_get_from_provider(clkspec), log |-> log]
         ELSE set_clk_rates_from(node, clk_supplier, k + 1, index + 1,
                  Append(log, ConfEvent("clk_set_rate", index, clkspec.np)))

\* __set_clk_rates(node, clk_supplier), after what log holds
__set_clk_rates(node, clk_supplier, log) ==
    set_clk_rates_from(node, clk_supplier, 1, 0, log)

\* of_clk_set_defaults(node, clk_supplier); present is node != NULL
of_clk_set_defaults(present, node, clk_supplier, parentErr) ==
    /\ ~conf.done
    /\ LET parents == __set_clk_parents(node, clk_supplier, parentErr)
           r == IF ~present THEN [rc |-> 0, log |-> <<>>]
                ELSE IF parents.rc < 0 THEN parents
                ELSE __set_clk_rates(node, clk_supplier, parents.log)
       IN  conf' = [done |-> TRUE, present |-> present, clk_supplier |-> clk_supplier,
                    node |-> node, parentErr |-> parentErr,
                    rc |-> r.rc, log |-> r.log]
    /\ UNCHANGED conf_frame

NextConf ==
    \E present \in BOOLEAN, node \in Nodes, clk_supplier \in BOOLEAN,
       parentErr \in {0, -EINVAL} :
        of_clk_set_defaults(present, node, clk_supplier, parentErr)

SpecConf == Init /\ [][NextConf]_vars

\* C17: when clk_supplier is false, of_clk_set_defaults returns 0 as soon as
\* it finds the node to supply one of the clocks of assigned-clocks or
\* assigned-clock-parents: it calls neither clk_set_parent nor clk_set_rate
\* after that, and it never reparents or sets the rate of a clock the node
\* supplies.
C17_StopsAtOwnClocks ==
    (conf.done /\ conf.present /\ ~conf.clk_supplier) =>
        /\ \A i \in 1..Len(conf.log) :
              conf.log[i].op = "supplier" =>
                  /\ conf.rc = 0
                  /\ \A j \in (i + 1)..Len(conf.log) :
                        conf.log[j].op \notin {"clk_set_parent", "clk_set_rate"}
        /\ \A i \in 1..Len(conf.log) :
              conf.log[i].op \in {"clk_set_parent", "clk_set_rate"} =>
                  conf.log[i].np # "node"

\* ---------------------------------------------------------------------
\* USB type-c DisplayPort bridge (drivers/gpu/drm/bridge/aux-hpd-bridge.c)

DP_ML0 == 0
DP_ML1 == 1
DP_ML2 == 2
DP_ML3 == 3
NUM_DP_ML == DP_ML3 + 1

USB_SSRX1 == 0
USB_SSTX1 == 1
USB_SSTX2 == 2
USB_SSRX2 == 3

TYPEC_STATE_SAFE == 0
TYPEC_STATE_USB == 1
TYPEC_STATE_MODAL == 2

DP_PIN_ASSIGN_C == 2
DP_PIN_ASSIGN_D == 3
DP_PIN_ASSIGN_E == 4

\* the mode of a DisplayPort altmode state with pin assignment pin
TYPEC_DP_STATE(pin) == TYPEC_STATE_MODAL + pin

\* DP_CONF_GET_PIN_ASSIGN(conf): bits 15:8 of the configure VDO
DP_CONF_GET_PIN_ASSIGN(c) == (c \div 256) % 256

\* a value stored in a u8
U8(v) == v % 256

\* the data-lanes counts of the DP endpoint
MaxLanes == {1, 2, 4}

\* the data-lanes properties of the type-c endpoints: physical lane (index,
\* from 0) to logical lane
LaneMappings == {<<0, 1, 2, 3>>, <<3, 2, 1, 0>>, <<1, 0, 3, 2>>}

\* the typec_mux_state values the port driver passes
Modes == {TYPEC_STATE_SAFE, TYPEC_STATE_USB, TYPEC_DP_STATE(DP_PIN_ASSIGN_C),
          TYPEC_DP_STATE(DP_PIN_ASSIGN_D), TYPEC_DP_STATE(DP_PIN_ASSIGN_E)}
Alts == {"none", "dp", "other"}

dp_lane_to_typec_lane(lane) ==
    CASE lane = DP_ML0 -> USB_SSTX2
      [] lane = DP_ML1 -> USB_SSRX2
      [] lane = DP_ML2 -> USB_SSTX1
      [] lane = DP_ML3 -> USB_SSRX1
      [] OTHER -> -EINVAL

typec_to_dp_lane(lane) ==
    CASE lane = USB_SSRX1 -> DP_ML3
      [] lane = USB_SSTX1 -> DP_ML2
      [] lane = USB_SSTX2 -> DP_ML0
      [] lane = USB_SSRX2 -> DP_ML1
      [] OTHER -> -EINVAL

\* the loop of drm_dp_typec_bridge_assign_pins from lane i on: the result
\* is dp_lanes and the return value
RECURSIVE assign_pins_from(_, _, _, _)
assign_pins_from(dp_lanes, lane_mapping, num_lanes, i) ==
    IF i >= num_lanes THEN [ret |-> 0, dp_lanes |-> dp_lanes]
    ELSE LET typec_lane == dp_lane_to_typec_lane(i) IN
         IF typec_lane < 0 THEN [ret |-> typec_lane, dp_lanes |-> dp_lanes]
         ELSE assign_pins_from(
                 [dp_lanes EXCEPT ![i + 1] =
                     U8(typec_to_dp_lane(lane_mapping[typec_lane + 1]))],
                 lane_mapping, num_lanes, i + 1)

\* drm_dp_typec_bridge_assign_pins(typec_bridge_dev, conf, port): the
\* bridge with ret set in last
drm_dp_typec_bridge_assign_pins(b, c, port) ==
    IF ~b.drvdata THEN [b EXCEPT !.last.ret = -EINVAL]
    ELSE LET pin_assign == U8(DP_CONF_GET_PIN_ASSIGN(c))
             num_lanes == Min({IF pin_assign = DP_PIN_ASSIGN_D THEN 2 ELSE 4,
                               b.max_lanes})
             r == assign_pins_from(b.dp_lanes, b.lane_mapping[port], num_lanes, 0)
         IN  [b EXCEPT !.num_lanes = num_lanes, !.dp_lanes = r.dp_lanes,
                       !.last.ret = r.ret]

\* drm_aux_hpd_bridge_notify(dev, status): passed on to
\* drm_bridge_hpd_notify when the driver data are set
drm_aux_hpd_bridge_notify(b, status) ==
    [b EXCEPT !.last.status = status, !.last.delivered = b.drvdata]

\* drm_aux_hpd_bridge_probe of the type-c bridge up to hpd_data->dev = dev:
\* the mode switches of the ports are registered
ProbeTypecPorts(max_lanes, mapping) ==
    /\ bridge.st = "unbound"
    /\ bridge' = [NoBridge EXCEPT !.st = "probing", !.max_lanes = max_lanes,
                                  !.lane_mapping = mapping,
                                  !.dp_lanes = <<DP_ML0, DP_ML1, DP_ML2, DP_ML3>>]
    /\ UNCHANGED bridge_frame

\* the rest of drm_aux_hpd_bridge_probe: auxiliary_set_drvdata and
\* devm_drm_bridge_add
drm_aux_hpd_bridge_probe ==
    /\ bridge.st = "probing"
    /\ bridge' = [bridge EXCEPT !.st = "bound", !.drvdata = TRUE]
    /\ UNCHANGED bridge_frame

\* a drm_dp_typec_bridge_mode_switch_set that does not look at what
\* drm_dp_typec_bridge_assign_pins returned
drm_dp_typec_bridge_mode_switch_set_unchecked(port, mode, alt, hpd) ==
    /\ bridge.st \in {"probing", "bound"}
    /\ LET b0 == [bridge EXCEPT !.last = [NoCall EXCEPT !.op = "mode_switch_set",
                                             !.port = port, !.mode = mode,
                                             !.alt = alt, !.hpd = hpd,
                                             !.drvdata = bridge.drvdata]]
           b1 == drm_dp_typec_bridge_assign_pins(b0, mode, port)
       IN  IF mode = TYPEC_STATE_SAFE \/ mode = TYPEC_STATE_USB
           THEN bridge' = drm_aux_hpd_bridge_notify(b0, "disconnected")
           ELSE IF alt = "dp"
           THEN bridge' = drm_aux_hpd_bridge_notify(
                             [b1 EXCEPT !.dp_mode = mode],
                             IF hpd THEN "connected" ELSE "disconnected")
           ELSE bridge' = b0
    /\ UNCHANGED bridge_frame

\* drm_dp_typec_bridge_mode_switch_set(mode_switch, state) for the mode
\* switch of port; alt says whether state->alt is NULL, the DisplayPort
\* altmode or another one, hpd is DP_STATUS_HPD_STATE of the status
drm_dp_typec_bridge_mode_switch_set(port, mode, alt, hpd) ==
    /\ bridge.st \in {"probing", "bound"}
    /\ LET b0 == [bridge EXCEPT !.last = [NoCall EXCEPT !.op = "mode_switch_set",
                                             !.port = port, !.mode = mode,
                                             !.alt = alt, !.hpd = hpd,
                                             !.drvdata = bridge.drvdata]]
           b1 == drm_dp_typec_bridge_assign_pins(b0, mode, port)
       IN  IF mode = TYPEC_STATE_SAFE \/ mode = TYPEC_STATE_USB
           THEN bridge' = drm_aux_hpd_bridge_notify(b0, "disconnected")
           ELSE IF alt = "dp"
           THEN IF b1.last.ret # 0 THEN bridge' = [b1 EXCEPT !.refused = TRUE]
                ELSE bridge' = drm_aux_hpd_bridge_notify(
                                  [b1 EXCEPT !.dp_mode = mode],
                                  IF hpd THEN "connected" ELSE "disconnected")
           ELSE bridge' = b0
    /\ UNCHANGED bridge_frame

\* drm_dp_typec_bridge_atomic_check(bridge, bridge_state, ...); allocOk
\* says whether kcalloc returns memory
drm_dp_typec_bridge_atomic_check(allocOk) ==
    /\ bridge.st = "bound"
    /\ LET num_lanes == bridge.num_lanes
           called == [NoCall EXCEPT !.op = "atomic_check"]
       IN  bridge' = [bridge EXCEPT !.last =
                        IF num_lanes = 0 THEN called
                        ELSE IF ~allocOk THEN [called EXCEPT !.ret = -ENOMEM]
                        ELSE [called EXCEPT
                                !.num_lanes = num_lanes,
                                !.lanes = [i \in 1..num_lanes |-> bridge.dp_lanes[i]]]]
    /\ UNCHANGED bridge_frame

NextBridge ==
    \/ \E max_lanes \in MaxLanes, mapping \in [Ports -> LaneMappings] :
          ProbeTypecPorts(max_lanes, mapping)
    \/ drm_aux_hpd_bridge_probe
    \/ \E port \in Ports, mode \in Modes, alt \in Alts, hpd \in BOOLEAN :
          drm_dp_typec_bridge_mode_switch_set(port, mode, alt, hpd)
    \/ \E allocOk \in BOOLEAN : drm_dp_typec_bridge_atomic_check(allocOk)

SpecBridge == Init /\ [][NextBridge]_vars

\* C18: once drm_dp_typec_bridge_mode_switch_set has handled a DisplayPort
\* altmode state, num_lanes is min(2, max_lanes) when the state has pin
\* assignment D and min(4, max_lanes) otherwise; an atomic check then asks
\* for exactly num_lanes input lanes, lane i with the logical lane
\* dp_lanes[i], which is one of 0..3.
C18_LanesFollowPinAssignment ==
    /\ bridge.dp_mode # -1 =>
          bridge.num_lanes =
              Min({IF bridge.dp_mode = TYPEC_DP_STATE(DP_PIN_ASSIGN_D) THEN 2 ELSE 4,
                   bridge.max_lanes})
    /\ (bridge.dp_mode # -1 /\ bridge.last.op = "atomic_check"
            /\ bridge.last.ret = 0) =>
          /\ bridge.last.num_lanes = bridge.num_lanes
          /\ Len(bridge.last.lanes) = bridge.num_lanes
          /\ \A i \in 1..bridge.num_lanes :
                /\ bridge.last.lanes[i] = bridge.dp_lanes[i]
                /\ bridge.last.lanes[i] \in 0..3

====
